---------------------------- MODULE Spec2Model ----------------------------
(***************************************************************************)
(* STM32H743 bring-up firmware: clock-output pins, system clock at 480 MHz *)
(* from a 25 MHz HSE crystal through PLL1, and the four-LED blink loop.    *)
(*                                                                         *)
(* A register is the set of its bit positions that hold 1 (bit 0 is the    *)
(* least significant bit), so the 32-bit words of the program, some of     *)
(* which exceed 2^31, are represented exactly.  The program is a list of   *)
(* register statements run by a small interpreter: one step per statement  *)
(* and one step per iteration of a polling or counting loop.  The status   *)
(* flags the program polls are driven by separate hardware actions.        *)
(***************************************************************************)
EXTENDS Integers, Sequences, FiniteSets, TLC

(***************************************************************************)
(* Bounds of the model.                                                    *)
(***************************************************************************)
\* iterations a counting loop (Delay, the nop loop) is run for, in place of
\* the 2000000 and 1500000 of the source
SpinBound == 2
\* iterations of the while(1) loop whose writes and LED states are recorded
MaxIter == 3

(***************************************************************************)
(* 32-bit words as sets of bit positions.                                  *)
(***************************************************************************)
Word == 0..31

Pow2(k) == 2^k

\* the bits of a number below 2^31
BitsOf(n) == {b \in 0..30 : (n \div Pow2(b)) % 2 = 1}

\* (n << k) in a 32-bit unsigned word: bits shifted past bit 31 are lost
Shl(n, k) == {b + k : b \in BitsOf(n)} \cap Word

\* the unsigned value of bits lo..hi of word w
RECURSIVE FieldFrom(_, _, _)
FieldFrom(w, lo, hi) ==
    IF hi < lo THEN 0
    ELSE (IF hi \in w THEN Pow2(hi - lo) ELSE 0) + FieldFrom(w, lo, hi - 1)

Field(w, lo, hi) == FieldFrom(w, lo, hi)

\* a 32-bit word given by its upper and lower halves
Hex32(hi, lo) == BitsOf(lo) \cup Shl(hi, 16)

(***************************************************************************)
(* Macros of main.c.                                                       *)
(***************************************************************************)
RCC_GPIOAEN == Shl(1, 0)
RCC_GPIOBEN == Shl(1, 1)
RCC_GPIOCEN == Shl(1, 2)
RCC_GPIOHEN == Shl(1, 7)
RCC_GPIOIEN == Shl(1, 8)

PA8_MODER1 == Shl(1, 17)
PA8_MODER0 == Shl(1, 16)
PC9_MODER1 == Shl(1, 19)
PC9_MODER0 == Shl(1, 18)

PA8_AFR8_3 == Shl(1, 3)
PA8_AFR8_2 == Shl(1, 2)
PA8_AFR8_1 == Shl(1, 2)
PA8_AFR8_0 == Shl(1, 0)
PC9_AFR9_3 == Shl(1, 7)
PC9_AFR9_2 == Shl(1, 6)
PC9_AFR9_1 == Shl(1, 5)
PC9_AFR9_0 == Shl(1, 4)

PC9_OSPEEDR_1 == Shl(1, 19)
PC9_OSPEEDR_0 == Shl(1, 18)
PA8_OSPEEDR_1 == Shl(1, 17)
PA8_OSPEEDR_0 == Shl(1, 16)

PC9_OTYPER == Shl(1, 9)
PA8_OTYPER == Shl(1, 8)

MCO1_2 == Shl(1, 24)
MCO1_1 == Shl(1, 23)
MCO1_0 == Shl(1, 22)
MCO2_2 == Shl(1, 31)
MCO2_1 == Shl(1, 30)
MCO2_0 == Shl(1, 29)

MCO1_PRE_3 == Shl(1, 21)
MCO1_PRE_2 == Shl(1, 20)
MCO1_PRE_1 == Shl(1, 19)
MCO1_PRE_0 == Shl(1, 18)
MCO2_PRE_3 == Shl(1, 28)
MCO2_PRE_2 == Shl(1, 27)
MCO2_PRE_1 == Shl(1, 26)
MCO2_PRE_0 == Shl(1, 25)

PB6_MODER1 == Shl(1, 13)
PB6_MODER0 == Shl(1, 12)
PB7_MODER1 == Shl(1, 15)
PB7_MODER0 == Shl(1, 14)
PH4_MODER1 == Shl(1, 9)
PH4_MODER0 == Shl(1, 8)
PI8_MODER1 == Shl(1, 17)
PI8_MODER0 == Shl(1, 16)

LED1_ON == Shl(1, 6)
LED2_ON == Shl(1, 7)
LED3_ON == Shl(1, 4)
LED4_ON == Shl(1, 8)

(***************************************************************************)
(* Macros of system_clock_config.c.                                        *)
(***************************************************************************)
RCC_PLLCKSELR_DIVM1_CLEAR == Shl(\b111111, 4)
RCC_PLLCKSELR_DIV_M1 == Shl(\b000101, 4)
RCC_PLL1DIVR_DIV_N1 == Shl(\hBF, 0)
RCC_PLL1DIVR_DIV_P1 == Shl(1, 9)
RCC_PLL1DIVR_DIV_Q1 == Shl(1, 16)
RCC_PLL1DIVR_DIV_R1 == Shl(1, 24)
RCC_D1CFGR_HPRE_DIV_8 == Shl(\h08, 0)
RCC_D1CFGR_D1CPRE_RESET == Shl(\b1111, 8)

(***************************************************************************)
(* The register bit names of the device header stm32h7xx.h (through it,   *)
(* stm32h743xx.h) that the sources use.                                    *)
(***************************************************************************)
stm32h7xx ==
    [PWR_CR3_BYPASS |-> Shl(1, 0),
     PWR_CR3_LDOEN |-> Shl(1, 1),
     PWR_CR3_SCUEN |-> Shl(1, 2),
     PWR_D3CR_VOSRDY |-> Shl(1, 13),
     PWR_D3CR_VOS_0 |-> Shl(1, 14),
     PWR_D3CR_VOS_1 |-> Shl(1, 15),
     PWR_D3CR_VOS |-> Shl(3, 14),
     SYSCFG_PWRCR_ODEN |-> Shl(1, 0),
     RCC_APB4ENR_SYSCFGEN |-> Shl(1, 1),
     RCC_CR_HSION |-> Shl(1, 0),
     RCC_CR_HSIRDY |-> Shl(1, 2),
     RCC_CR_CSIRDY |-> Shl(1, 8),
     RCC_CR_HSEON |-> Shl(1, 16),
     RCC_CR_HSERDY |-> Shl(1, 17),
     RCC_CR_PLL1ON |-> Shl(1, 24),
     RCC_CR_PLLON |-> Shl(1, 24),
     RCC_CR_PLL1RDY |-> Shl(1, 25),
     RCC_CFGR_SW |-> Shl(7, 0),
     RCC_CFGR_SW_HSE |-> Shl(2, 0),
     RCC_CFGR_SW_PLL1 |-> Shl(3, 0),
     RCC_CFGR_SWS |-> Shl(7, 3),
     RCC_CFGR_SWS_HSE |-> Shl(2, 3),
     RCC_CFGR_SWS_PLL1 |-> Shl(3, 3),
     RCC_PLLCKSELR_PLLSRC_HSE |-> Shl(2, 0),
     RCC_PLLCFGR_PLL1FRACEN |-> Shl(1, 0),
     RCC_PLLCFGR_PLL1VCOSEL |-> Shl(1, 1),
     RCC_PLLCFGR_PLL1RGE_2 |-> Shl(2, 2),
     RCC_PLLCFGR_DIVP1EN |-> Shl(1, 16),
     RCC_PLLCFGR_DIVQ1EN |-> Shl(1, 17),
     RCC_PLLCFGR_DIVR1EN |-> Shl(1, 18),
     RCC_D1CFGR_HPRE |-> Shl(15, 0),
     RCC_D1CFGR_D1PPRE_2 |-> Shl(4, 4),
     RCC_D2CFGR_D2PPRE1_2 |-> Shl(4, 4),
     RCC_D2CFGR_D2PPRE2_2 |-> Shl(4, 8),
     RCC_D3CFGR_D3PPRE_2 |-> Shl(4, 4),
     RCC_AHB4ENR_GPIOAEN |-> Shl(1, 0),
     RCC_AHB4ENR_GPIOCEN |-> Shl(1, 2),
     GPIO_MODER_MODE8_0 |-> Shl(1, 16),
     GPIO_MODER_MODE8_1 |-> Shl(1, 17),
     GPIO_MODER_MODE9_0 |-> Shl(1, 18),
     GPIO_MODER_MODE9_1 |-> Shl(1, 19),
     GPIO_AFRH_AFSEL8 |-> Shl(15, 0),
     GPIO_AFRH_AFSEL9 |-> Shl(15, 4),
     GPIO_OTYPER_OT8 |-> Shl(1, 8),
     GPIO_OTYPER_OT9 |-> Shl(1, 9),
     GPIO_OSPEEDR_OSPEED8 |-> Shl(3, 16),
     GPIO_OSPEEDR_OSPEED9 |-> Shl(3, 18),
     RCC_CFGR_MCO1PRE_0 |-> Shl(1, 18),
     RCC_CFGR_MCO1PRE_1 |-> Shl(1, 19),
     RCC_CFGR_MCO1PRE_2 |-> Shl(1, 20),
     RCC_CFGR_MCO1PRE_3 |-> Shl(1, 21),
     RCC_CFGR_MCO1_0 |-> Shl(1, 22),
     RCC_CFGR_MCO1_1 |-> Shl(1, 23),
     RCC_CFGR_MCO1_2 |-> Shl(1, 24),
     RCC_CFGR_MCO2PRE_0 |-> Shl(1, 25),
     RCC_CFGR_MCO2PRE_1 |-> Shl(1, 26),
     RCC_CFGR_MCO2PRE_2 |-> Shl(1, 27),
     RCC_CFGR_MCO2PRE_3 |-> Shl(1, 28),
     RCC_CFGR_MCO2_0 |-> Shl(1, 29),
     RCC_CFGR_MCO2_1 |-> Shl(1, 30),
     RCC_CFGR_MCO2_2 |-> Shl(1, 31)]

(***************************************************************************)
(* Statements.  Every statement is a record of the same shape:             *)
(*   set    REG |= mask            clr    REG &= ~mask                     *)
(*   xor    REG ^= mask            mod    MODIFY_REG(REG, mask, val)       *)
(*   store  REG = val              read   tmpreg = READ_BIT(REG, mask)     *)
(*   until_eq    while ((REG & mask) != val) ;                             *)
(*   until_any   while ((REG & mask) == 0) ;    while (!(REG & mask)) ;    *)
(*   until_none  while ((REG & mask) != 0) ;                               *)
(*   spin   for (i = 0; i < n; i++) ;                                      *)
(*   d2clk  the assignment to SystemD2Clock                                *)
(*   call   a call of a function of the program                            *)
(*   ext    a call of a function of the vendor library                     *)
(***************************************************************************)
Ins(op, reg, mask, val, n) ==
    [op |-> op, reg |-> reg, mask |-> mask, val |-> val, n |-> n]

Set(reg, mask) == Ins("set", reg, mask, {}, 0)
Clr(reg, mask) == Ins("clr", reg, mask, {}, 0)
Xor(reg, mask) == Ins("xor", reg, mask, {}, 0)
Mod(reg, clearmask, setmask) == Ins("mod", reg, clearmask, setmask, 0)
Store(reg, val) == Ins("store", reg, {}, val, 0)
Rd(reg, mask) == Ins("read", reg, mask, {}, 0)
UntilEq(reg, mask, val) == Ins("until_eq", reg, mask, val, 0)
UntilAny(reg, mask) == Ins("until_any", reg, mask, {}, 0)
UntilNone(reg, mask) == Ins("until_none", reg, mask, {}, 0)
SpinFor(n) == Ins("spin", "i", {}, {}, n)
D2Clk == Ins("d2clk", "SystemD2Clock", {}, {}, 480000000)
Call(f) == Ins("call", f, {}, {}, 0)
Ext(f) == Ins("ext", f, {}, {}, 0)

WriteOps == {"set", "clr", "xor", "mod", "store"}
WaitOps == {"until_eq", "until_any", "until_none"}

(***************************************************************************)
(* main.c: the functions.                                                  *)
(***************************************************************************)
Delay == << SpinFor(2000000) >>

MCO_Pins_Config ==
    << Set("RCC_AHB4ENR", RCC_GPIOAEN \cup RCC_GPIOCEN),
       Set("GPIOA_MODER", PA8_MODER1),
       Clr("GPIOA_MODER", PA8_MODER0),
       Set("GPIOC_MODER", PC9_MODER1),
       Clr("GPIOC_MODER", PC9_MODER0),
       Clr("GPIOA_AFRH", PA8_AFR8_3 \cup PA8_AFR8_2 \cup PA8_AFR8_1 \cup PA8_AFR8_0),
       Clr("GPIOC_AFRH", PC9_AFR9_3 \cup PC9_AFR9_2 \cup PC9_AFR9_1 \cup PC9_AFR9_0),
       Clr("GPIOA_OTYPER", PA8_OTYPER),
       Clr("GPIOC_OTYPER", PC9_OTYPER),
       Set("GPIOC_OSPEEDR", PC9_OSPEEDR_1 \cup PC9_OSPEEDR_0),
       Set("GPIOA_OSPEEDR", PA8_OSPEEDR_1 \cup PA8_OSPEEDR_0) >>

\* variation: the prescaler of MCO1 left disabled (0000)
MCO_Select_Set_NoPrescaler ==
    << Clr("RCC_CFGR", MCO1_2),
       Set("RCC_CFGR", MCO1_1),
       Set("RCC_CFGR", MCO1_0),
       Clr("RCC_CFGR", MCO2_2),
       Set("RCC_CFGR", MCO2_1),
       Set("RCC_CFGR", MCO2_0),
       Clr("RCC_CFGR", MCO1_PRE_3),
       Clr("RCC_CFGR", MCO1_PRE_2),
       Clr("RCC_CFGR", MCO1_PRE_1),
       Clr("RCC_CFGR", MCO1_PRE_0),
       Set("RCC_CFGR", MCO2_PRE_3),
       Clr("RCC_CFGR", MCO2_PRE_2),
       Clr("RCC_CFGR", MCO2_PRE_1),
       Clr("RCC_CFGR", MCO2_PRE_0) >>

MCO_Select_Set ==
    << Clr("RCC_CFGR", MCO1_2),
       Set("RCC_CFGR", MCO1_1),
       Set("RCC_CFGR", MCO1_0),
       Clr("RCC_CFGR", MCO2_2),
       Set("RCC_CFGR", MCO2_1),
       Set("RCC_CFGR", MCO2_0),
       Set("RCC_CFGR", MCO1_PRE_3),
       Clr("RCC_CFGR", MCO1_PRE_2),
       Clr("RCC_CFGR", MCO1_PRE_1),
       Clr("RCC_CFGR", MCO1_PRE_0),
       Set("RCC_CFGR", MCO2_PRE_3),
       Clr("RCC_CFGR", MCO2_PRE_2),
       Clr("RCC_CFGR", MCO2_PRE_1),
       Clr("RCC_CFGR", MCO2_PRE_0) >>

GPIO_LEDs_Config ==
    << Set("RCC_AHB4ENR", RCC_GPIOBEN \cup RCC_GPIOHEN \cup RCC_GPIOIEN),
       Clr("GPIOB_MODER", PB6_MODER1),
       Set("GPIOB_MODER", PB6_MODER0),
       Clr("GPIOB_MODER", PB7_MODER1),
       Set("GPIOB_MODER", PB7_MODER0),
       Clr("GPIOH_MODER", PH4_MODER1),
       Set("GPIOH_MODER", PH4_MODER0),
       Clr("GPIOI_MODER", PI8_MODER1),
       Set("GPIOI_MODER", PI8_MODER0) >>

\* variation: LED4 is not switched off
Turn_LEDs_OFF_Three ==
    << Clr("GPIOB_ODR", LED1_ON),
       Clr("GPIOB_ODR", LED2_ON),
       Clr("GPIOH_ODR", LED3_ON) >>

Turn_LEDs_OFF ==
    << Clr("GPIOB_ODR", LED1_ON),
       Clr("GPIOB_ODR", LED2_ON),
       Clr("GPIOH_ODR", LED3_ON),
       Clr("GPIOI_ODR", LED4_ON) >>

Turn_LEDs_ON ==
    << Set("GPIOB_ODR", LED1_ON),
       Set("GPIOB_ODR", LED2_ON),
       Set("GPIOH_ODR", LED3_ON),
       Set("GPIOI_ODR", LED4_ON) >>

(***************************************************************************)
(* main.c: SystemClock_Config, in the three parts its comments name.       *)
(***************************************************************************)
\* 1) Boost the voltage scaling level to VOS0
SCC_VoltageScaling ==
    << Mod("PWR_CR3", stm32h7xx.PWR_CR3_SCUEN \cup stm32h7xx.PWR_CR3_LDOEN \cup stm32h7xx.PWR_CR3_BYPASS, stm32h7xx.PWR_CR3_LDOEN),
       SpinFor(1500000),
       Mod("PWR_D3CR", stm32h7xx.PWR_D3CR_VOS, Shl(2, 14)),
       Rd("PWR_D3CR", stm32h7xx.PWR_D3CR_VOS),
       Set("SYSCFG_PWRCR", stm32h7xx.SYSCFG_PWRCR_ODEN),
       Rd("SYSCFG_PWRCR", stm32h7xx.SYSCFG_PWRCR_ODEN),
       UntilEq("PWR_D3CR", stm32h7xx.PWR_D3CR_VOSRDY, stm32h7xx.PWR_D3CR_VOSRDY) >>

\* 2) Oscillator initialisation: HSE on, switch to HSE, HSI and PLL1 off
SCC_EnableHSE ==
    << Set("RCC_CR", stm32h7xx.RCC_CR_HSEON),
       UntilAny("RCC_CR", stm32h7xx.RCC_CR_HSERDY) >>

\* variation: the switch status compared with 001 (CSI) in place of 010 (HSE)
SCC_SwitchToHSE_WrongStatus ==
    << Set("RCC_CFGR", Shl(2, 0)),
       UntilEq("RCC_CFGR", stm32h7xx.RCC_CFGR_SWS, BitsOf(\h08)),
       Clr("RCC_CR", Shl(1, 0)),
       Clr("RCC_CR", Shl(1, 24)),
       UntilNone("RCC_CR", stm32h7xx.RCC_CR_PLL1RDY) >>

\* variation: HSI switched off before the switch status is polled
SCC_SwitchToHSE_HsiOffFirst ==
    << Set("RCC_CFGR", Shl(2, 0)),
       Clr("RCC_CR", Shl(1, 0)),
       UntilEq("RCC_CFGR", stm32h7xx.RCC_CFGR_SWS, BitsOf(\h10)),
       Clr("RCC_CR", Shl(1, 24)),
       UntilNone("RCC_CR", stm32h7xx.RCC_CR_PLL1RDY) >>

SCC_SwitchToHSE ==
    << Set("RCC_CFGR", Shl(2, 0)),
       UntilEq("RCC_CFGR", stm32h7xx.RCC_CFGR_SWS, BitsOf(\h10)),
       Clr("RCC_CR", Shl(1, 0)),
       Clr("RCC_CR", Shl(1, 24)),
       UntilNone("RCC_CR", stm32h7xx.RCC_CR_PLL1RDY) >>

\* variation: the multiplier of the first draft kept in the comment block of
\* main.c (384 in place of 0xBF)
SCC_PllDividers_Draft ==
    << Clr("RCC_PLLCKSELR", Shl(\b111111, 4)),
       Set("RCC_PLLCKSELR", Shl(\h05, 4)),
       Set("RCC_PLLCKSELR", stm32h7xx.RCC_PLLCKSELR_PLLSRC_HSE),
       Set("RCC_PLL1DIVR", Shl(384, 0)),
       Set("RCC_PLL1DIVR", Shl(\h01, 9)),
       Set("RCC_PLL1DIVR", Shl(\h01, 16)),
       Set("RCC_PLL1DIVR", Shl(\h01, 24)) >>

\* the PLL1 dividers: DIVM1, source, DIVN1, DIVP1, DIVQ1, DIVR1
SCC_PllDividers ==
    << Clr("RCC_PLLCKSELR", Shl(\b111111, 4)),
       Set("RCC_PLLCKSELR", Shl(\h05, 4)),
       Set("RCC_PLLCKSELR", stm32h7xx.RCC_PLLCKSELR_PLLSRC_HSE),
       Set("RCC_PLL1DIVR", Shl(\hBF, 0)),
       Set("RCC_PLL1DIVR", Shl(\h01, 9)),
       Set("RCC_PLL1DIVR", Shl(\h01, 16)),
       Set("RCC_PLL1DIVR", Shl(\h01, 24)) >>

\* fractional divider, input range, VCO range, output enables
\* variation: the fractional part written after PLL1FRACEN is set
SCC_PllConfig_FracLate ==
    << Clr("RCC_PLLCFGR", Shl(1, 0)),
       Set("RCC_PLLCFGR", Shl(2, 2)),
       Set("RCC_PLLCFGR", Shl(0, 1)),
       Set("RCC_PLLCFGR", stm32h7xx.RCC_PLLCFGR_DIVP1EN),
       Set("RCC_PLLCFGR", stm32h7xx.RCC_PLLCFGR_DIVQ1EN),
       Set("RCC_PLLCFGR", stm32h7xx.RCC_PLLCFGR_DIVR1EN),
       Set("RCC_PLLCFGR", stm32h7xx.RCC_PLLCFGR_PLL1FRACEN),
       Store("RCC_PLL1FRACR", {}) >>

SCC_PllConfig ==
    << Clr("RCC_PLLCFGR", Shl(1, 0)),
       Store("RCC_PLL1FRACR", {}),
       Set("RCC_PLLCFGR", Shl(2, 2)),
       Set("RCC_PLLCFGR", Shl(0, 1)),
       Set("RCC_PLLCFGR", stm32h7xx.RCC_PLLCFGR_DIVP1EN),
       Set("RCC_PLLCFGR", stm32h7xx.RCC_PLLCFGR_DIVQ1EN),
       Set("RCC_PLLCFGR", stm32h7xx.RCC_PLLCFGR_DIVR1EN),
       Set("RCC_PLLCFGR", stm32h7xx.RCC_PLLCFGR_PLL1FRACEN) >>

SCC_EnablePLL ==
    << Set("RCC_CR", stm32h7xx.RCC_CR_PLLON),
       UntilAny("RCC_CR", stm32h7xx.RCC_CR_PLL1RDY) >>

\* 3) Clock initialisation: prescalers and the switch to PLL1
SCC_SwitchToPLL ==
    << Set("RCC_D1CFGR", Shl(\h08, 0)),
       Set("RCC_D1CFGR", Shl(0, 8)),
       Set("RCC_CFGR", Shl(\b011, 0)),
       UntilEq("RCC_CFGR", stm32h7xx.RCC_CFGR_SWS, stm32h7xx.RCC_CFGR_SWS_PLL1) >>

SCC_BusPrescalers ==
    << Set("RCC_D1CFGR", Shl(\b100, 4)),
       Set("RCC_D2CFGR", Shl(\b100, 4)),
       Set("RCC_D2CFGR", Shl(\b100, 8)),
       Set("RCC_D3CFGR", Shl(\b100, 4)),
       D2Clk >>

\* variation: PLL1 enabled before its configuration registers are written
SystemClock_Config_PllOnFirst ==
    SCC_VoltageScaling \o SCC_EnableHSE \o SCC_SwitchToHSE \o SCC_PllDividers
    \o SCC_EnablePLL \o SCC_PllConfig \o SCC_SwitchToPLL \o SCC_BusPrescalers

SystemClock_Config ==
    SCC_VoltageScaling \o SCC_EnableHSE \o SCC_SwitchToHSE \o SCC_PllDividers
    \o SCC_PllConfig \o SCC_EnablePLL \o SCC_SwitchToPLL \o SCC_BusPrescalers

D1CorePrescTable == << 0, 0, 0, 0, 1, 2, 3, 4, 1, 2, 3, 4, 6, 7, 8, 9 >>

(***************************************************************************)
(* The multi-file variant: mco_pins_config.c, system_clock_config.c and    *)
(* mco_select_set.c.                                                       *)
(***************************************************************************)
MCO_Pins_Config_m ==
    << Set("RCC_AHB4ENR", stm32h7xx.RCC_AHB4ENR_GPIOAEN \cup stm32h7xx.RCC_AHB4ENR_GPIOCEN),
       Set("GPIOA_MODER", stm32h7xx.GPIO_MODER_MODE8_1),
       Clr("GPIOA_MODER", stm32h7xx.GPIO_MODER_MODE8_0),
       Set("GPIOC_MODER", stm32h7xx.GPIO_MODER_MODE9_1),
       Clr("GPIOC_MODER", stm32h7xx.GPIO_MODER_MODE9_0),
       Clr("GPIOA_AFRH", stm32h7xx.GPIO_AFRH_AFSEL8),
       Clr("GPIOC_AFRH", stm32h7xx.GPIO_AFRH_AFSEL9),
       Clr("GPIOA_OTYPER", stm32h7xx.GPIO_OTYPER_OT8),
       Clr("GPIOC_OTYPER", stm32h7xx.GPIO_OTYPER_OT9),
       Set("GPIOC_OSPEEDR", stm32h7xx.GPIO_OSPEEDR_OSPEED9),
       Set("GPIOA_OSPEEDR", stm32h7xx.GPIO_OSPEEDR_OSPEED8) >>

MCO_Select_Set_m ==
    << Clr("RCC_CFGR", stm32h7xx.RCC_CFGR_MCO1_2 \cup stm32h7xx.RCC_CFGR_MCO1_1 \cup stm32h7xx.RCC_CFGR_MCO1_0),
       Clr("RCC_CFGR", stm32h7xx.RCC_CFGR_MCO2_2),
       Set("RCC_CFGR", stm32h7xx.RCC_CFGR_MCO2_1),
       Set("RCC_CFGR", stm32h7xx.RCC_CFGR_MCO2_0),
       Clr("RCC_CFGR", stm32h7xx.RCC_CFGR_MCO1PRE_3 \cup stm32h7xx.RCC_CFGR_MCO1PRE_2
                       \cup stm32h7xx.RCC_CFGR_MCO1PRE_1 \cup stm32h7xx.RCC_CFGR_MCO1PRE_0),
       Clr("RCC_CFGR", stm32h7xx.RCC_CFGR_MCO2PRE_3),
       Set("RCC_CFGR", stm32h7xx.RCC_CFGR_MCO2PRE_2),
       Clr("RCC_CFGR", stm32h7xx.RCC_CFGR_MCO2PRE_1),
       Set("RCC_CFGR", stm32h7xx.RCC_CFGR_MCO2PRE_0) >>

\* Steps 1 to 6: VOS1, supply configuration, SYSCFG clock, overdrive
\* variation: the overdrive bit written before the SYSCFG clock is enabled
SCCm_VoltageScaling_OdenFirst ==
    << Set("PWR_D3CR", stm32h7xx.PWR_D3CR_VOS_1 \cup stm32h7xx.PWR_D3CR_VOS_0),
       UntilAny("PWR_D3CR", stm32h7xx.PWR_D3CR_VOS_1),
       UntilAny("PWR_D3CR", stm32h7xx.PWR_D3CR_VOS_0),
       Set("PWR_CR3", stm32h7xx.PWR_CR3_SCUEN \cup stm32h7xx.PWR_CR3_LDOEN \cup stm32h7xx.PWR_CR3_BYPASS),
       Set("SYSCFG_PWRCR", stm32h7xx.SYSCFG_PWRCR_ODEN),
       Set("RCC_APB4ENR", stm32h7xx.RCC_APB4ENR_SYSCFGEN),
       UntilAny("PWR_D3CR", stm32h7xx.PWR_D3CR_VOSRDY) >>

SCCm_VoltageScaling ==
    << Set("PWR_D3CR", stm32h7xx.PWR_D3CR_VOS_1 \cup stm32h7xx.PWR_D3CR_VOS_0),
       UntilAny("PWR_D3CR", stm32h7xx.PWR_D3CR_VOS_1),
       UntilAny("PWR_D3CR", stm32h7xx.PWR_D3CR_VOS_0),
       Set("PWR_CR3", stm32h7xx.PWR_CR3_SCUEN \cup stm32h7xx.PWR_CR3_LDOEN \cup stm32h7xx.PWR_CR3_BYPASS),
       Set("RCC_APB4ENR", stm32h7xx.RCC_APB4ENR_SYSCFGEN),
       Set("SYSCFG_PWRCR", stm32h7xx.SYSCFG_PWRCR_ODEN),
       UntilAny("PWR_D3CR", stm32h7xx.PWR_D3CR_VOSRDY) >>

\* Step 7
SCCm_EnableHSE ==
    << Set("RCC_CR", stm32h7xx.RCC_CR_HSEON),
       UntilAny("RCC_CR", stm32h7xx.RCC_CR_HSERDY) >>

\* Steps 8 and 9
SCCm_SwitchToHSE ==
    << Set("RCC_CFGR", stm32h7xx.RCC_CFGR_SW_HSE),
       UntilAny("RCC_CFGR", stm32h7xx.RCC_CFGR_SWS_HSE),
       Clr("RCC_CR", stm32h7xx.RCC_CR_HSION),
       Clr("RCC_CR", stm32h7xx.RCC_CR_PLL1ON),
       UntilNone("RCC_CR", stm32h7xx.RCC_CR_PLL1RDY) >>

\* Steps 10 to 12
SCCm_PllDividers ==
    << Clr("RCC_PLLCKSELR", RCC_PLLCKSELR_DIVM1_CLEAR),
       Set("RCC_PLLCKSELR", RCC_PLLCKSELR_DIV_M1),
       Set("RCC_PLLCKSELR", stm32h7xx.RCC_PLLCKSELR_PLLSRC_HSE),
       Set("RCC_PLL1DIVR", RCC_PLL1DIVR_DIV_N1),
       Set("RCC_PLL1DIVR", RCC_PLL1DIVR_DIV_P1),
       Set("RCC_PLL1DIVR", RCC_PLL1DIVR_DIV_Q1),
       Set("RCC_PLL1DIVR", RCC_PLL1DIVR_DIV_R1) >>

\* Steps 13 to 17
SCCm_PllConfig ==
    << Clr("RCC_PLLCFGR", stm32h7xx.RCC_PLLCFGR_PLL1FRACEN),
       Store("RCC_PLL1FRACR", {}),
       Set("RCC_PLLCFGR", stm32h7xx.RCC_PLLCFGR_PLL1RGE_2),
       Clr("RCC_PLLCFGR", stm32h7xx.RCC_PLLCFGR_PLL1VCOSEL),
       Set("RCC_PLLCFGR", stm32h7xx.RCC_PLLCFGR_DIVP1EN),
       Set("RCC_PLLCFGR", stm32h7xx.RCC_PLLCFGR_DIVQ1EN),
       Set("RCC_PLLCFGR", stm32h7xx.RCC_PLLCFGR_DIVR1EN),
       Set("RCC_PLLCFGR", stm32h7xx.RCC_PLLCFGR_PLL1FRACEN) >>

\* variation: the wait of step 9 repeated after step 18
SCCm_EnablePLL_WaitOff ==
    << Set("RCC_CR", stm32h7xx.RCC_CR_PLLON),
       UntilNone("RCC_CR", stm32h7xx.RCC_CR_PLL1RDY) >>

\* Step 18
SCCm_EnablePLL ==
    << Set("RCC_CR", stm32h7xx.RCC_CR_PLLON),
       UntilAny("RCC_CR", stm32h7xx.RCC_CR_PLL1RDY) >>

\* Step 19
SCCm_SwitchToPLL ==
    << Set("RCC_D1CFGR", RCC_D1CFGR_HPRE_DIV_8),
       Clr("RCC_D1CFGR", RCC_D1CFGR_D1CPRE_RESET),
       Set("RCC_CFGR", stm32h7xx.RCC_CFGR_SW_PLL1),
       UntilAny("RCC_CFGR", stm32h7xx.RCC_CFGR_SWS_PLL1) >>

\* Steps 19 (end) to 21
SCCm_BusPrescalers ==
    << Set("RCC_D1CFGR", stm32h7xx.RCC_D1CFGR_D1PPRE_2),
       Set("RCC_D2CFGR", stm32h7xx.RCC_D2CFGR_D2PPRE1_2),
       Set("RCC_D2CFGR", stm32h7xx.RCC_D2CFGR_D2PPRE2_2),
       Set("RCC_D3CFGR", stm32h7xx.RCC_D3CFGR_D3PPRE_2) >>

SystemClock_Config_m ==
    SCCm_VoltageScaling \o SCCm_EnableHSE \o SCCm_SwitchToHSE \o SCCm_PllDividers
    \o SCCm_PllConfig \o SCCm_EnablePLL \o SCCm_SwitchToPLL \o SCCm_BusPrescalers

(***************************************************************************)
(* The entry points.  init is the part of main before while (1), loop the  *)
(* body of while (1).                                                      *)
(***************************************************************************)
main_while ==
    << Call("Delay"),
       Xor("GPIOB_ODR", LED1_ON),
       Call("Delay"),
       Xor("GPIOB_ODR", LED2_ON),
       Call("Delay"),
       Xor("GPIOH_ODR", LED3_ON),
       Call("Delay"),
       Xor("GPIOI_ODR", LED4_ON),
       Call("Delay"),
       Call("Turn_LEDs_OFF"),
       Call("Delay"),
       Call("Delay"),
       Call("Delay") >>

\* variation: the clock is configured first, then both clock-output functions
main_ClockFirst ==
    [init |-> << Ext("SystemInit"),
                 Call("SystemClock_Config"),
                 Call("MCO_Pins_Config"),
                 Ext("SystemCoreClockUpdate"),
                 Call("MCO_Select_Set"),
                 Call("GPIO_LEDs_Config"),
                 Call("Turn_LEDs_ON"),
                 Call("Delay"),
                 Call("Delay"),
                 Call("Turn_LEDs_OFF"),
                 Call("Delay"),
                 Call("Turn_LEDs_ON") >>,
     loop |-> main_while]

\* variation: the clock outputs are selected before the clock is configured
main_SelectFirst ==
    [init |-> << Ext("SystemInit"),
                 Call("MCO_Pins_Config"),
                 Call("MCO_Select_Set"),
                 Call("SystemClock_Config"),
                 Ext("SystemCoreClockUpdate"),
                 Call("GPIO_LEDs_Config"),
                 Call("Turn_LEDs_ON"),
                 Call("Delay"),
                 Call("Delay"),
                 Call("Turn_LEDs_OFF"),
                 Call("Delay"),
                 Call("Turn_LEDs_ON") >>,
     loop |-> main_while]

\* main of main.c
main ==
    [init |-> << Ext("SystemInit"),
                 Call("MCO_Pins_Config"),
                 Call("SystemClock_Config"),
                 Ext("SystemCoreClockUpdate"),
                 Call("MCO_Select_Set"),
                 Call("GPIO_LEDs_Config"),
                 Call("Turn_LEDs_ON"),
                 Call("Delay"),
                 Call("Delay"),
                 Call("Turn_LEDs_OFF"),
                 Call("Delay"),
                 Call("Turn_LEDs_ON") >>,
     loop |-> main_while]

\* main of the second entry point (unnamed/part_001): SystemClock_Config is
\* commented out
main_part_001 ==
    [init |-> << Ext("SystemInit"),
                 Call("MCO_Pins_Config"),
                 Ext("SystemCoreClockUpdate"),
                 Call("MCO_Select_Set"),
                 Call("GPIO_LEDs_Config"),
                 Call("Turn_LEDs_ON"),
                 Call("Delay"),
                 Call("Delay"),
                 Call("Turn_LEDs_OFF"),
                 Call("Delay"),
                 Call("Turn_LEDs_ON") >>,
     loop |-> main_while]

\* the entry point of the multi-file variant is not among the sources: the
\* three functions in the order of the prototypes' use in main.c
main_multi ==
    [init |-> << Ext("SystemInit"),
                 Call("MCO_Pins_Config"),
                 Call("SystemClock_Config"),
                 Ext("SystemCoreClockUpdate"),
                 Call("MCO_Select_Set") >>,
     loop |-> << >>]

Variants == {"main_c", "part_001", "multi"}

Program(v) ==
    CASE v = "main_c" -> main
      [] v = "part_001" -> main_part_001
      [] v = "multi" -> main_multi

\* the body of function f as linked into variant v
Body(v, f) ==
    CASE f = "Delay" -> Delay
      [] f = "MCO_Pins_Config" -> (IF v = "multi" THEN MCO_Pins_Config_m ELSE MCO_Pins_Config)
      [] f = "SystemClock_Config" -> (IF v = "multi" THEN SystemClock_Config_m ELSE SystemClock_Config)
      [] f = "MCO_Select_Set" -> (IF v = "multi" THEN MCO_Select_Set_m ELSE MCO_Select_Set)
      [] f = "GPIO_LEDs_Config" -> GPIO_LEDs_Config
      [] f = "Turn_LEDs_OFF" -> Turn_LEDs_OFF
      [] f = "Turn_LEDs_ON" -> Turn_LEDs_ON

MainSeq(v) == Program(v).init \o Program(v).loop

LoopStart(v) == Len(Program(v).init) + 1

(***************************************************************************)
(* The registers and their contents at entry of main.                      *)
(***************************************************************************)
Regs ==
    {"PWR_CR3", "PWR_D3CR", "SYSCFG_PWRCR",
     "RCC_CR", "RCC_CFGR", "RCC_PLLCKSELR", "RCC_PLLCFGR", "RCC_PLL1DIVR",
     "RCC_PLL1FRACR", "RCC_D1CFGR", "RCC_D2CFGR", "RCC_D3CFGR",
     "RCC_AHB4ENR", "RCC_APB4ENR",
     "GPIOA_MODER", "GPIOA_AFRH", "GPIOA_OTYPER", "GPIOA_OSPEEDR",
     "GPIOC_MODER", "GPIOC_AFRH", "GPIOC_OTYPER", "GPIOC_OSPEEDR",
     "GPIOB_MODER", "GPIOB_ODR", "GPIOH_MODER", "GPIOH_ODR",
     "GPIOI_MODER", "GPIOI_ODR"}

\* the reset values of the reference manual (RM0433), HSI running
ResetValue(reg) ==
    CASE reg = "PWR_CR3" -> Hex32(\h0000, \h0006)
      [] reg = "PWR_D3CR" -> Hex32(\h0000, \h4000)
      [] reg = "RCC_CR" -> stm32h7xx.RCC_CR_HSION \cup stm32h7xx.RCC_CR_HSIRDY
      [] reg = "RCC_PLLCKSELR" -> Hex32(\h0202, \h0200)
      [] reg = "RCC_PLLCFGR" -> Hex32(\h01FF, \h0000)
      [] reg = "RCC_PLL1DIVR" -> Hex32(\h0101, \h0280)
      [] reg = "RCC_APB4ENR" -> Hex32(\h0001, \h0000)
      [] reg = "GPIOA_MODER" -> Hex32(\hABFF, \hFFFF)
      [] reg = "GPIOA_OSPEEDR" -> Hex32(\h0C00, \h0000)
      [] reg = "GPIOB_MODER" -> Hex32(\hFFFF, \hFEBF)
      [] reg \in {"GPIOC_MODER", "GPIOH_MODER", "GPIOI_MODER"} -> Hex32(\hFFFF, \hFFFF)
      [] OTHER -> {}

\* a start without power-on reset: SystemInit has put the RCC registers back
\* to their reset values, but the PLL1 it switched off may still read ready,
\* the supply is already stable, and the GPIO registers hold what the previous
\* program left in them
WarmValue(reg) ==
    CASE reg = "RCC_CR" -> stm32h7xx.RCC_CR_HSION \cup stm32h7xx.RCC_CR_HSIRDY \cup stm32h7xx.RCC_CR_PLL1RDY
      [] reg = "PWR_D3CR" -> Hex32(\h0000, \h6000)
      [] reg \in {"GPIOA_AFRH", "GPIOC_AFRH"} -> Hex32(\hFFFF, \hFFFF)
      [] reg \in {"GPIOA_OTYPER", "GPIOC_OTYPER"} -> Hex32(\h0000, \hFFFF)
      [] reg \in {"GPIOA_MODER", "GPIOC_MODER"} -> Hex32(\h5555, \h5555)
      [] reg \in {"GPIOB_ODR", "GPIOI_ODR"} -> Hex32(\h0000, \h0140)
      [] OTHER -> ResetValue(reg)

Boots == {"reset", "warm"}

EntryRegs(b) ==
    [reg \in Regs |-> IF b = "reset" THEN ResetValue(reg) ELSE WarmValue(reg)]

\* bits only the hardware changes: a write leaves them as they are
ReadOnly(reg) ==
    CASE reg = "PWR_D3CR" -> stm32h7xx.PWR_D3CR_VOSRDY
      [] reg = "RCC_CR" -> stm32h7xx.RCC_CR_HSIRDY \cup stm32h7xx.RCC_CR_CSIRDY \cup stm32h7xx.RCC_CR_HSERDY \cup stm32h7xx.RCC_CR_PLL1RDY
      [] reg = "RCC_CFGR" -> stm32h7xx.RCC_CFGR_SWS
      [] OTHER -> {}

(***************************************************************************)
(* State.                                                                  *)
(***************************************************************************)
VARIABLES
    variant,        \* which entry point runs
    boot,           \* which register contents main was entered with
    regs,           \* the registers
    pc,             \* position in main (index into init \o loop)
    fn,             \* the function being executed, "main" when none is called
    fpc,            \* position in the body of fn, 0 in main
    i,              \* the counter of the running counting loop
    SystemD2Clock,  \* the global variable of that name
    iter,           \* completed iterations of while (1), counted up to MaxIter
    log,            \* history: the calls, returns and register writes so far
    obs,            \* history: the flag values that polling reads have shown
    cur,            \* history: LED states after each LED write of this iteration
    blink           \* history: the cur of every completed iteration

vars == << variant, boot, regs, pc, fn, fpc, i, SystemD2Clock, iter, log, obs, cur, blink >>

(***************************************************************************)
(* The meaning of the statements.                                          *)
(***************************************************************************)
\* the word a write statement computes from the word w it read
Apply(ins, w) ==
    CASE ins.op = "set" -> w \cup ins.mask
      [] ins.op = "clr" -> w \ ins.mask
      [] ins.op = "xor" -> (w \ ins.mask) \cup (ins.mask \ w)
      [] ins.op = "mod" -> (w \ ins.mask) \cup ins.val
      [] ins.op = "store" -> ins.val

\* the word the register holds after the write
Written(reg, old, new) == (new \ ReadOnly(reg)) \cup (old \cap ReadOnly(reg))

\* variation: a comparison with a value written as a test for any bit of it
WaitDone_AnyBit(ins, w) ==
    CASE ins.op = "until_eq" -> (w \cap ins.val) # {}
      [] ins.op = "until_any" -> (w \cap ins.mask) # {}
      [] ins.op = "until_none" -> (w \cap ins.mask) = {}

\* the exit condition of a polling loop on the word w it read
WaitDone(ins, w) ==
    CASE ins.op = "until_eq" -> (w \cap ins.mask) = ins.val
      [] ins.op = "until_any" -> (w \cap ins.mask) # {}
      [] ins.op = "until_none" -> (w \cap ins.mask) = {}

\* variation: a bit field is cleared only if (REG & mask) is not already 0
Taken_IfNeeded(ins, w) == ins.op = "clr" => (w \cap ins.mask) # {}

\* no statement of the program is under an if: every statement reached is run
Taken(ins, w) == TRUE

\* the number of iterations of a counting loop
SpinCount(ins) == IF ins.n < SpinBound THEN ins.n ELSE SpinBound

\* SystemD2Clock as SystemClock_Config of main.c computes it
D2ClockOf(w) ==
    480000000 \div Pow2(D1CorePrescTable[Field(w \cap stm32h7xx.RCC_D1CFGR_HPRE, 0, 3) + 1] % 32)

\* the LEDs whose output bit is 1
Leds(r) ==
    {l \in {"PB6", "PB7", "PH4", "PI8"} :
        \/ l = "PB6" /\ LED1_ON \subseteq r["GPIOB_ODR"]
        \/ l = "PB7" /\ LED2_ON \subseteq r["GPIOB_ODR"]
        \/ l = "PH4" /\ LED3_ON \subseteq r["GPIOH_ODR"]
        \/ l = "PI8" /\ LED4_ON \subseteq r["GPIOI_ODR"]}

LedRegs == {"GPIOB_ODR", "GPIOH_ODR", "GPIOI_ODR"}

(***************************************************************************)
(* History.                                                                *)
(***************************************************************************)
Ev(kind, f, reg, op, mask) ==
    [kind |-> kind, fn |-> f, reg |-> reg, op |-> op, mask |-> mask]

Recording == iter < MaxIter

Note(e) == log' = IF Recording THEN Append(log, e) ELSE log

\* a write of the log that sets (op "set") or clears (op "clr") all of bits in reg
Wrote(lg, reg, op, bits) ==
    \E k \in DOMAIN lg :
        /\ lg[k].kind = "write"
        /\ lg[k].reg = reg
        /\ lg[k].op = op
        /\ bits \subseteq lg[k].mask

\* what the polling read ins, which returned w, has shown of the bits it tests
Observed(ins, w, lg) ==
    LET reg == ins.reg
        seen(bits) == bits \cap ins.mask # {}
    IN
    {o \in {"VOS_1", "VOS_0", "VOSRDY", "HSERDY", "PLL1RDY", "PLL1OFF",
            "SWS_HSE", "SWS_PLL1"} :
        \/ o = "VOS_1" /\ reg = "PWR_D3CR" /\ seen(stm32h7xx.PWR_D3CR_VOS_1)
                       /\ stm32h7xx.PWR_D3CR_VOS_1 \subseteq w
        \/ o = "VOS_0" /\ reg = "PWR_D3CR" /\ seen(stm32h7xx.PWR_D3CR_VOS_0)
                       /\ stm32h7xx.PWR_D3CR_VOS_0 \subseteq w
        \/ o = "VOSRDY" /\ reg = "PWR_D3CR" /\ seen(stm32h7xx.PWR_D3CR_VOSRDY)
                        /\ stm32h7xx.PWR_D3CR_VOSRDY \subseteq w
        \/ o = "HSERDY" /\ reg = "RCC_CR" /\ seen(stm32h7xx.RCC_CR_HSERDY)
                        /\ stm32h7xx.RCC_CR_HSERDY \subseteq w
        \/ o = "PLL1RDY" /\ reg = "RCC_CR" /\ seen(stm32h7xx.RCC_CR_PLL1RDY)
                         /\ stm32h7xx.RCC_CR_PLL1RDY \subseteq w
                         /\ Wrote(lg, "RCC_CR", "set", stm32h7xx.RCC_CR_PLL1ON)
        \/ o = "PLL1OFF" /\ reg = "RCC_CR" /\ seen(stm32h7xx.RCC_CR_PLL1RDY)
                         /\ stm32h7xx.RCC_CR_PLL1RDY \cap w = {}
                         /\ Wrote(lg, "RCC_CR", "clr", stm32h7xx.RCC_CR_PLL1ON)
        \/ o = "SWS_HSE" /\ reg = "RCC_CFGR" /\ seen(stm32h7xx.RCC_CFGR_SWS)
                         /\ w \cap stm32h7xx.RCC_CFGR_SWS = stm32h7xx.RCC_CFGR_SWS_HSE
        \/ o = "SWS_PLL1" /\ reg = "RCC_CFGR" /\ seen(stm32h7xx.RCC_CFGR_SWS)
                          /\ w \cap stm32h7xx.RCC_CFGR_SWS = stm32h7xx.RCC_CFGR_SWS_PLL1}

(***************************************************************************)
(* The program.                                                            *)
(***************************************************************************)
Init ==
    /\ variant \in Variants
    /\ boot \in Boots
    /\ regs = EntryRegs(boot)
    /\ pc = 1
    /\ fn = "main"
    /\ fpc = 0
    /\ i = 0
    /\ SystemD2Clock = 64000000
    /\ iter = 0
    /\ log = << >>
    /\ obs = {}
    /\ cur = << >>
    /\ blink = << >>

Code == IF fn = "main" THEN MainSeq(variant) ELSE Body(variant, fn)

Pos == IF fn = "main" THEN pc ELSE fpc

AtIns == Pos \in 1..Len(Code)

CurIns == Code[Pos]

InLoop == pc >= LoopStart(variant)

Advance ==
    /\ fn' = fn
    /\ IF fn = "main" THEN pc' = pc + 1 /\ fpc' = fpc
                      ELSE fpc' = fpc + 1 /\ pc' = pc

\* main calls a function of the program
DoCall ==
    /\ fn = "main" /\ AtIns /\ CurIns.op = "call"
    /\ fn' = CurIns.reg
    /\ fpc' = 1
    /\ Note(Ev("call", CurIns.reg, "", "", {}))
    /\ UNCHANGED << variant, boot, regs, pc, i, SystemD2Clock, iter, obs, cur, blink >>

\* the called function returns to main
DoReturn ==
    /\ fn # "main" /\ fpc = Len(Code) + 1
    /\ fn' = "main"
    /\ fpc' = 0
    /\ pc' = pc + 1
    /\ Note(Ev("ret", fn, "", "", {}))
    /\ UNCHANGED << variant, boot, regs, i, SystemD2Clock, iter, obs, cur, blink >>

\* SystemInit and SystemCoreClockUpdate of the vendor library: no register
\* of the model is written
DoExt ==
    /\ AtIns /\ CurIns.op = "ext"
    /\ Advance
    /\ Note(Ev("ext", CurIns.reg, "", "", {}))
    /\ UNCHANGED << variant, boot, regs, i, SystemD2Clock, iter, obs, cur, blink >>

\* a register write: |=, &= ~, ^=, MODIFY_REG, =
DoWrite ==
    /\ AtIns /\ CurIns.op \in WriteOps
    /\ Advance
    /\ IF Taken(CurIns, regs[CurIns.reg])
       THEN /\ regs' = [regs EXCEPT ![CurIns.reg] =
                            Written(CurIns.reg, @, Apply(CurIns, @))]
            /\ Note(Ev("write", fn, CurIns.reg, CurIns.op, CurIns.mask \cup CurIns.val))
       ELSE UNCHANGED << regs, log >>
    /\ cur' = IF CurIns.reg \in LedRegs /\ InLoop /\ Recording
              THEN Append(cur, Leds(regs'))
              ELSE cur
    /\ UNCHANGED << variant, boot, i, SystemD2Clock, iter, obs, blink >>

\* tmpreg = READ_BIT(...): the value is not used
DoRead ==
    /\ AtIns /\ CurIns.op = "read"
    /\ Advance
    /\ UNCHANGED << variant, boot, regs, i, SystemD2Clock, iter, log, obs, cur, blink >>

\* one evaluation of the condition of a polling loop
DoPoll ==
    /\ AtIns /\ CurIns.op \in WaitOps
    /\ obs' = obs \cup Observed(CurIns, regs[CurIns.reg], log)
    /\ IF WaitDone(CurIns, regs[CurIns.reg])
       THEN Advance
       ELSE UNCHANGED << fn, pc, fpc >>
    /\ UNCHANGED << variant, boot, regs, i, SystemD2Clock, iter, log, cur, blink >>

\* one evaluation of the condition of a counting loop
DoSpin ==
    /\ AtIns /\ CurIns.op = "spin"
    /\ IF i < SpinCount(CurIns)
       THEN i' = i + 1 /\ UNCHANGED << fn, pc, fpc >>
       ELSE i' = 0 /\ Advance
    /\ UNCHANGED << variant, boot, regs, SystemD2Clock, iter, log, obs, cur, blink >>

\* SystemD2Clock = 480000000 >> ...
DoD2Clk ==
    /\ AtIns /\ CurIns.op = "d2clk"
    /\ Advance
    /\ SystemD2Clock' = D2ClockOf(regs["RCC_D1CFGR"])
    /\ UNCHANGED << variant, boot, regs, i, iter, log, obs, cur, blink >>

\* the closing brace of while (1)
LoopBack ==
    /\ fn = "main"
    /\ pc = Len(MainSeq(variant)) + 1
    /\ Len(Program(variant).loop) > 0
    /\ pc' = LoopStart(variant)
    /\ iter' = IF Recording THEN iter + 1 ELSE iter
    /\ blink' = IF Recording THEN Append(blink, cur) ELSE blink
    /\ cur' = << >>
    /\ UNCHANGED << variant, boot, regs, fn, fpc, i, SystemD2Clock, log, obs >>

Program_Step ==
    \/ DoCall
    \/ DoReturn
    \/ DoExt
    \/ DoWrite
    \/ DoRead
    \/ DoPoll
    \/ DoSpin
    \/ DoD2Clk
    \/ LoopBack

(***************************************************************************)
(* The hardware behind the flags the program polls.                        *)
(***************************************************************************)
HwOnly == UNCHANGED << variant, boot, pc, fn, fpc, i, SystemD2Clock, iter, log, obs, cur, blink >>

SetBits(reg, bits) == regs' = [regs EXCEPT ![reg] = @ \cup bits]

ClearBits(reg, bits) == regs' = [regs EXCEPT ![reg] = @ \ bits]

Has(reg, bits) == bits \subseteq regs[reg]

\* the supply reaches the programmed level
HwVosReady ==
    /\ ~Has("PWR_D3CR", stm32h7xx.PWR_D3CR_VOSRDY)
    /\ SetBits("PWR_D3CR", stm32h7xx.PWR_D3CR_VOSRDY)
    /\ HwOnly

\* the crystal oscillator is stable
HwHseReady ==
    /\ Has("RCC_CR", stm32h7xx.RCC_CR_HSEON)
    /\ ~Has("RCC_CR", stm32h7xx.RCC_CR_HSERDY)
    /\ SetBits("RCC_CR", stm32h7xx.RCC_CR_HSERDY)
    /\ HwOnly

\* the internal oscillator has stopped
HwHsiStop ==
    /\ ~Has("RCC_CR", stm32h7xx.RCC_CR_HSION)
    /\ Has("RCC_CR", stm32h7xx.RCC_CR_HSIRDY)
    /\ ClearBits("RCC_CR", stm32h7xx.RCC_CR_HSIRDY)
    /\ HwOnly

\* PLL1 locks
HwPll1Lock ==
    /\ Has("RCC_CR", stm32h7xx.RCC_CR_PLL1ON)
    /\ ~Has("RCC_CR", stm32h7xx.RCC_CR_PLL1RDY)
    /\ SetBits("RCC_CR", stm32h7xx.RCC_CR_PLL1RDY)
    /\ HwOnly

\* PLL1 has stopped
HwPll1Stop ==
    /\ ~Has("RCC_CR", stm32h7xx.RCC_CR_PLL1ON)
    /\ Has("RCC_CR", stm32h7xx.RCC_CR_PLL1RDY)
    /\ ClearBits("RCC_CR", stm32h7xx.RCC_CR_PLL1RDY)
    /\ HwOnly

\* the clock the SW field selects is ready
SourceReady(sw) ==
    CASE sw = 0 -> Has("RCC_CR", stm32h7xx.RCC_CR_HSIRDY)
      [] sw = 1 -> Has("RCC_CR", stm32h7xx.RCC_CR_CSIRDY)
      [] sw = 2 -> Has("RCC_CR", stm32h7xx.RCC_CR_HSERDY)
      [] sw = 3 -> Has("RCC_CR", stm32h7xx.RCC_CR_PLL1RDY)
      [] OTHER -> FALSE

\* the system clock switch follows the SW field: SWS takes its value
HwClockSwitch ==
    LET sw == Field(regs["RCC_CFGR"], 0, 2)
        sws == Field(regs["RCC_CFGR"], 3, 5)
    IN /\ sw # sws
       /\ SourceReady(sw)
       /\ regs' = [regs EXCEPT !["RCC_CFGR"] = (@ \ stm32h7xx.RCC_CFGR_SWS) \cup Shl(sw, 3)]
       /\ HwOnly

Hardware ==
    \/ HwVosReady
    \/ HwHseReady
    \/ HwHsiStop
    \/ HwPll1Lock
    \/ HwPll1Stop
    \/ HwClockSwitch

Next == Program_Step \/ Hardware

Spec == Init /\ [][Next]_vars

\* the processor keeps executing, and the hardware does not fail: each flag
\* whose condition stays requested is eventually asserted
FairSpec ==
    /\ Spec
    /\ WF_vars(Program_Step)
    /\ WF_vars(HwVosReady)
    /\ WF_vars(HwHseReady)
    /\ WF_vars(HwPll1Lock)
    /\ WF_vars(HwPll1Stop)
    /\ WF_vars(HwClockSwitch)

(***************************************************************************)
(* Notions the properties share.                                           *)
(***************************************************************************)
\* main is at the head of while (1), about to run its body for the first time
EntersWhile == fn = "main" /\ pc = LoopStart(variant) /\ iter = 0 /\ Len(Program(variant).loop) > 0

SW == Field(regs["RCC_CFGR"], 0, 2)
SWS == Field(regs["RCC_CFGR"], 3, 5)
DIVM1 == Field(regs["RCC_PLLCKSELR"], 4, 9)
PLLSRC == Field(regs["RCC_PLLCKSELR"], 0, 1)
DIVN1 == Field(regs["RCC_PLL1DIVR"], 0, 8)
DIVP1 == Field(regs["RCC_PLL1DIVR"], 9, 15)

\* the frequency of pll1_p_ck for a crystal of hse Hz, 0 when DIVM1 disables
\* the prescaler
PLL1_P_Hz(hse) ==
    IF DIVM1 = 0 THEN 0 ELSE ((hse \div DIVM1) * (DIVN1 + 1)) \div (DIVP1 + 1)

IsWrite(e) == e.kind = "write"

IsLedWrite(e) == e.kind = "write" /\ e.reg \in LedRegs

\* the positions of the log before k that satisfy P
Before(k) == 1..(k - 1)

Returned(f, k) == \E j \in Before(k) : log[j].kind = "ret" /\ log[j].fn = f

Called(f, k) == \E j \in Before(k) : log[j].kind = "call" /\ log[j].fn = f

LedWritten(k) == \E j \in Before(k) : IsLedWrite(log[j])

(***************************************************************************)
(* C1.  From the reset register values, with a 25 MHz crystal, when main   *)
(* of main.c enters while (1) the system clock switch selects PLL1 (SW =   *)
(* SWS = 011), DIVM1 = 5, DIVN1 = 0xBF, DIVP1 = 1, PLL1 takes its input    *)
(* from HSE, and HSE / DIVM1 * (DIVN1 + 1) / (DIVP1 + 1) is 480,000,000.   *)
(***************************************************************************)
C1_Clock480MHz ==
    (variant = "main_c" /\ boot = "reset" /\ EntersWhile) =>
        /\ SW = 3
        /\ SWS = 3
        /\ PLLSRC = 2
        /\ DIVM1 = 5
        /\ DIVN1 = \hBF
        /\ DIVP1 = 1
        /\ PLL1_P_Hz(25000000) = 480000000

C1_Witness ==
    /\ variant = "main_c" /\ boot = "reset" /\ EntersWhile
    /\ "SWS_PLL1" \in obs
    /\ PLL1_P_Hz(25000000) = 480000000

(***************************************************************************)
(* C2.  As claimed: in main of main.c every register write of              *)
(* MCO_Pins_Config and of MCO_Select_Set happens after SystemClock_Config  *)
(* has returned and before the first write to an LED output register.      *)
(***************************************************************************)
C2_PinRoutingAfterClock ==
    variant = "main_c" =>
        \A k \in DOMAIN log :
            (IsWrite(log[k]) /\ log[k].fn \in {"MCO_Pins_Config", "MCO_Select_Set"}) =>
                Returned("SystemClock_Config", k) /\ ~LedWritten(k)

(***************************************************************************)
(* C2, amended.  In main of main.c every register write of MCO_Select_Set  *)
(* happens after SystemClock_Config has returned, every register write of  *)
(* MCO_Pins_Config happens before SystemClock_Config is called, and all of *)
(* them happen before the first write to an LED output register.           *)
(***************************************************************************)
C2_Amended ==
    variant = "main_c" =>
        \A k \in DOMAIN log :
            /\ (IsWrite(log[k]) /\ log[k].fn = "MCO_Select_Set") =>
                   Returned("SystemClock_Config", k) /\ ~LedWritten(k)
            /\ (IsWrite(log[k]) /\ log[k].fn = "MCO_Pins_Config") =>
                   ~Called("SystemClock_Config", k) /\ ~LedWritten(k)

C2_Witness ==
    /\ variant = "main_c"
    /\ \E k \in DOMAIN log : IsWrite(log[k]) /\ log[k].fn = "MCO_Pins_Config"
    /\ \E k \in DOMAIN log : IsWrite(log[k]) /\ log[k].fn = "MCO_Select_Set"
    /\ \E k \in DOMAIN log : IsLedWrite(log[k])

(***************************************************************************)
(* C3.  In both implementations of SystemClock_Config: HSEON is not set    *)
(* before a polling read of PWR_D3CR has shown VOSRDY = 1; SW is not       *)
(* written and no PLL1 configuration register is written before a polling *)
(* read of RCC_CR has shown HSERDY = 1; SW = 011 is not written before a   *)
(* polling read of RCC_CR has shown PLL1RDY = 1 after PLL1ON was set.      *)
(***************************************************************************)
Pll1Regs == {"RCC_PLLCKSELR", "RCC_PLLCFGR", "RCC_PLL1DIVR", "RCC_PLL1FRACR"}

C3_PhasesGated ==
    /\ Wrote(log, "RCC_CR", "set", stm32h7xx.RCC_CR_HSEON) => "VOSRDY" \in obs
    /\ (\E k \in DOMAIN log :
            /\ IsWrite(log[k])
            /\ \/ log[k].reg = "RCC_CFGR" /\ log[k].mask \cap stm32h7xx.RCC_CFGR_SW # {}
               \/ log[k].reg \in Pll1Regs)
        => "HSERDY" \in obs
    /\ Wrote(log, "RCC_CFGR", "set", stm32h7xx.RCC_CFGR_SW_PLL1) => "PLL1RDY" \in obs

C3_Witness ==
    /\ variant = "multi"
    /\ Wrote(log, "RCC_CR", "set", stm32h7xx.RCC_CR_HSEON)
    /\ Wrote(log, "RCC_PLL1DIVR", "set", RCC_PLL1DIVR_DIV_N1)
    /\ Wrote(log, "RCC_CFGR", "set", stm32h7xx.RCC_CFGR_SW_PLL1)
    /\ {"VOSRDY", "HSERDY", "PLL1RDY"} \subseteq obs

(***************************************************************************)
(* C4.  In SystemClock_Config of main.c a polling loop is left only on the *)
(* awaited flag value: while the flag of the loop the function stands in   *)
(* (VOSRDY, HSERDY, SWS = HSE, PLL1RDY = 0, PLL1RDY = 1, SWS = PLL1, in    *)
(* this order) does not hold, no step moves the program on, returns, calls *)
(* another function or writes a register.  There is no other way out.      *)
(***************************************************************************)
\* the number of the polling loop of SystemClock_Config the program stands in
WaitIndex ==
    Cardinality({j \in 1..fpc : j \in DOMAIN SystemClock_Config
                                /\ SystemClock_Config[j].op \in WaitOps})

FlagHolds(n) ==
    CASE n = 1 -> Has("PWR_D3CR", stm32h7xx.PWR_D3CR_VOSRDY)
      [] n = 2 -> Has("RCC_CR", stm32h7xx.RCC_CR_HSERDY)
      [] n = 3 -> SWS = 2
      [] n = 4 -> ~Has("RCC_CR", stm32h7xx.RCC_CR_PLL1RDY)
      [] n = 5 -> Has("RCC_CR", stm32h7xx.RCC_CR_PLL1RDY)
      [] n = 6 -> SWS = 3
      [] OTHER -> TRUE

InClockWait ==
    /\ variant = "main_c"
    /\ fn = "SystemClock_Config"
    /\ AtIns
    /\ CurIns.op \in WaitOps

C4_SpinsUntilFlag ==
    [][(InClockWait /\ ~FlagHolds(WaitIndex)) =>
           (pc' = pc /\ fn' = fn /\ fpc' = fpc /\ log' = log)]_vars

C4_Witness ==
    /\ InClockWait
    /\ WaitIndex = 6
    /\ ~FlagHolds(6)
    /\ "SWS_HSE" \in obs

(***************************************************************************)
(* C5.  With a processor that keeps running and hardware that asserts      *)
(* every requested flag, main of main.c reaches while (1) and stays in it. *)
(***************************************************************************)
C5_ReachesBlinkLoop == (variant = "main_c") => <>[](InLoop /\ Returned("SystemClock_Config", Len(log) + 1))

C5_Witness ==
    /\ variant = "main_c"
    /\ InLoop
    /\ iter >= 1
    /\ Returned("SystemClock_Config", Len(log) + 1)

(***************************************************************************)
(* C6.  main of main.c calls MCO_Pins_Config, SystemClock_Config,          *)
(* MCO_Select_Set and GPIO_LEDs_Config once each, in this order, before    *)
(* while (1), and never again in the loop.                                 *)
(***************************************************************************)
ConfigOrder ==
    << "MCO_Pins_Config", "SystemClock_Config", "MCO_Select_Set", "GPIO_LEDs_Config" >>

IsConfigCall(e) ==
    e.kind = "call" /\ \E k \in DOMAIN ConfigOrder : ConfigOrder[k] = e.fn

ConfigCalls == SelectSeq(log, IsConfigCall)

C6_ConfiguredOnceInOrder ==
    variant = "main_c" =>
        /\ Len(ConfigCalls) <= Len(ConfigOrder)
        /\ \A k \in DOMAIN ConfigCalls : ConfigCalls[k].fn = ConfigOrder[k]
        /\ InLoop => Len(ConfigCalls) = Len(ConfigOrder)

C6_Witness ==
    /\ variant = "main_c"
    /\ InLoop
    /\ iter >= 2
    /\ Len(ConfigCalls) = 4

(***************************************************************************)
(* C7.  As claimed: every iteration of while (1) of main.c, the first one  *)
(* included, produces the same sequence of states of the four LEDs.        *)
(***************************************************************************)
C7_SamePatternEveryIteration ==
    variant = "main_c" => \A a, b \in DOMAIN blink : blink[a] = blink[b]

(***************************************************************************)
(* C7, amended.  Every iteration of while (1) of main.c after the first    *)
(* produces the same sequence of states of the four LEDs as every other    *)
(* iteration after the first (the first is entered with all LEDs on, the   *)
(* later ones with all LEDs off).                                          *)
(***************************************************************************)
C7_Amended ==
    variant = "main_c" =>
        \A a, b \in DOMAIN blink : (a >= 2 /\ b >= 2) => blink[a] = blink[b]

C7_Witness ==
    /\ variant = "main_c"
    /\ Len(blink) >= 3
    /\ blink[2] = blink[3]
    /\ blink[1] # blink[2]

RECURSIVE EventsOf(_, _, _)
EventsOf(v, f, body) ==
    IF body = << >> THEN << >>
    ELSE LET ins == Head(body)
             here == CASE ins.op = "call" ->
                              << Ev("call", ins.reg, "", "", {}) >>
                              \o EventsOf(v, ins.reg, Body(v, ins.reg))
                              \o << Ev("ret", ins.reg, "", "", {}) >>
                       [] ins.op = "ext" -> << Ev("ext", ins.reg, "", "", {}) >>
                       [] ins.op \in WriteOps ->
                              << Ev("write", f, ins.reg, ins.op, ins.mask \cup ins.val) >>
                       [] OTHER -> << >>
         IN here \o EventsOf(v, f, Tail(body))

RECURSIVE Repeat(_, _)
Repeat(sq, n) == IF n = 0 THEN << >> ELSE sq \o Repeat(sq, n - 1)

ProgramText(v) ==
    EventsOf(v, "main", Program(v).init)
    \o Repeat(EventsOf(v, "main", Program(v).loop), MaxIter)

TextOfMain == ProgramText("main_c")

C9_FixedWriteSequence ==
    variant = "main_c" =>
        /\ Len(log) <= Len(TextOfMain)
        /\ \A k \in DOMAIN log : log[k] = TextOfMain[k]

C9_Witness ==
    /\ variant = "main_c"
    /\ boot = "warm"
    /\ iter = MaxIter
    /\ log = TextOfMain

(***************************************************************************)
(* C10.  As claimed: when main of the second entry point (part_001)        *)
(* enters while (1), PLL1 has been enabled and is selected as the system   *)
(* clock (SW = 011).                                                       *)
(***************************************************************************)
C10_SecondEntryAt480MHz ==
    (variant = "part_001" /\ EntersWhile) =>
        /\ Has("RCC_CR", stm32h7xx.RCC_CR_PLL1ON)
        /\ SW = 3

(***************************************************************************)
(* C11.  As claimed: when SystemClock_Config of main.c is at the statement *)
(* that sets ODEN in SYSCFG_PWRCR, the VOS field of PWR_D3CR (bits 15:14)  *)
(* holds 11 (voltage scaling 1).                                           *)
(***************************************************************************)
VOS == Field(regs["PWR_D3CR"], 14, 15)

AtSetODEN ==
    /\ fn = "SystemClock_Config"
    /\ AtIns
    /\ CurIns.op = "set"
    /\ CurIns.reg = "SYSCFG_PWRCR"
    /\ stm32h7xx.SYSCFG_PWRCR_ODEN \subseteq CurIns.mask

C11_ScaleOneBeforeOverdrive ==
    (variant = "main_c" /\ AtSetODEN) => VOS = 3

(***************************************************************************)
(* C12.  As claimed: SystemClock_Config of system_clock_config.c does not  *)
(* get past the wait that follows the selection of PLL1, and so writes     *)
(* none of D1PPRE, D2PPRE1, D2PPRE2, D3PPRE, before a read of RCC_CFGR has *)
(* shown SWS = 011.                                                        *)
(***************************************************************************)
BusPrescalerWritten ==
    \/ Wrote(log, "RCC_D1CFGR", "set", stm32h7xx.RCC_D1CFGR_D1PPRE_2)
    \/ Wrote(log, "RCC_D2CFGR", "set", stm32h7xx.RCC_D2CFGR_D2PPRE1_2)
    \/ Wrote(log, "RCC_D2CFGR", "set", stm32h7xx.RCC_D2CFGR_D2PPRE2_2)
    \/ Wrote(log, "RCC_D3CFGR", "set", stm32h7xx.RCC_D3CFGR_D3PPRE_2)

C12_WaitsForPll1Status ==
    (variant = "multi" /\ BusPrescalerWritten) => "SWS_PLL1" \in obs

(***************************************************************************)
(* C13.  PLL1 is reconfigured only while it is disabled: every write to    *)
(* RCC_PLLCKSELR, RCC_PLL1DIVR, RCC_PLL1FRACR or RCC_PLLCFGR comes after   *)
(* PLL1ON was cleared and PLL1RDY was read as 0, and before PLL1ON is set; *)
(* none comes once PLL1ON has been set.                                    *)
(***************************************************************************)
IsPll1Write(e) == IsWrite(e) /\ e.reg \in Pll1Regs

Pll1OnWritten(op, k) ==
    \E j \in Before(k) :
        /\ IsWrite(log[j])
        /\ log[j].reg = "RCC_CR"
        /\ log[j].op = op
        /\ stm32h7xx.RCC_CR_PLL1ON \subseteq log[j].mask

C13_Pll1ConfiguredWhileOff ==
    /\ \A k \in DOMAIN log :
           IsPll1Write(log[k]) =>
               /\ Pll1OnWritten("clr", k)
               /\ ~Pll1OnWritten("set", k)
    /\ (\E k \in DOMAIN log : IsPll1Write(log[k])) => "PLL1OFF" \in obs

C13_Witness ==
    /\ \A r \in Pll1Regs : \E k \in DOMAIN log : IsWrite(log[k]) /\ log[k].reg = r
    /\ Wrote(log, "RCC_CR", "set", stm32h7xx.RCC_CR_PLL1ON)
    /\ boot = "warm"

(***************************************************************************)
(* C14.  The running clock source is never switched off: HSION is cleared  *)
(* only after a read of RCC_CFGR has shown SWS = HSE, HSEON is never       *)
(* cleared, and so the oscillator reported by the last observed SWS value  *)
(* is enabled at every step.                                               *)
(***************************************************************************)
ClearsHSEON(e) ==
    /\ IsWrite(e)
    /\ e.reg = "RCC_CR"
    /\ \/ e.op \notin {"set", "clr"}
       \/ e.op = "clr" /\ e.mask \cap stm32h7xx.RCC_CR_HSEON # {}

C14_RunningSourceKeptOn ==
    /\ Wrote(log, "RCC_CR", "clr", stm32h7xx.RCC_CR_HSION) => "SWS_HSE" \in obs
    /\ \A k \in DOMAIN log : ~ClearsHSEON(log[k])
    /\ "SWS_HSE" \notin obs => Has("RCC_CR", stm32h7xx.RCC_CR_HSION)
    /\ "SWS_HSE" \in obs => Has("RCC_CR", stm32h7xx.RCC_CR_HSEON)
    /\ "SWS_PLL1" \in obs => Has("RCC_CR", stm32h7xx.RCC_CR_PLL1ON)

C14_Witness ==
    /\ variant = "multi"
    /\ Wrote(log, "RCC_CR", "clr", stm32h7xx.RCC_CR_HSION)
    /\ ~Has("RCC_CR", stm32h7xx.RCC_CR_HSION)
    /\ SWS = 2

(***************************************************************************)
(* C15.  SystemClock_Config of system_clock_config.c activates VOS0 in     *)
(* order: VOS = 11 is written to PWR_D3CR and read back, then SYSCFGEN is  *)
(* set in RCC_APB4ENR, then ODEN is set in SYSCFG_PWRCR, then VOSRDY is    *)
(* awaited; SYSCFG_PWRCR is never written before SYSCFGEN has been set.    *)
(***************************************************************************)
WroteBefore(k, reg, op, bits) == Wrote(SubSeq(log, 1, k - 1), reg, op, bits)

VosWritten(k) ==
    WroteBefore(k, "PWR_D3CR", "set",
                stm32h7xx.PWR_D3CR_VOS_1 \cup stm32h7xx.PWR_D3CR_VOS_0)

C15_Vos0ActivationOrder ==
    variant = "multi" =>
        /\ \A k \in DOMAIN log :
               /\ (IsWrite(log[k]) /\ log[k].reg = "RCC_APB4ENR") => VosWritten(k)
               /\ (IsWrite(log[k]) /\ log[k].reg = "SYSCFG_PWRCR") =>
                      WroteBefore(k, "RCC_APB4ENR", "set",
                                  stm32h7xx.RCC_APB4ENR_SYSCFGEN)
        /\ Wrote(log, "RCC_APB4ENR", "set", stm32h7xx.RCC_APB4ENR_SYSCFGEN) =>
               /\ {"VOS_1", "VOS_0"} \subseteq obs
               /\ VOS = 3
        /\ Wrote(log, "SYSCFG_PWRCR", "set", stm32h7xx.SYSCFG_PWRCR_ODEN) =>
               Has("RCC_APB4ENR", stm32h7xx.RCC_APB4ENR_SYSCFGEN)
        /\ "VOSRDY" \in obs =>
               Wrote(log, "SYSCFG_PWRCR", "set", stm32h7xx.SYSCFG_PWRCR_ODEN)
        /\ Wrote(log, "RCC_CR", "set", stm32h7xx.RCC_CR_HSEON) => "VOSRDY" \in obs

C15_Witness ==
    /\ variant = "multi"
    /\ "VOSRDY" \in obs
    /\ Wrote(log, "SYSCFG_PWRCR", "set", stm32h7xx.SYSCFG_PWRCR_ODEN)
    /\ Has("SYSCFG_PWRCR", stm32h7xx.SYSCFG_PWRCR_ODEN)

(***************************************************************************)
(* C16.  As claimed: whatever GPIOA and GPIOC held, after MCO_Pins_Config  *)
(* of main.c PA8 and PC9 are in alternate-function mode (MODER = 10) with  *)
(* AF0 selected (AFRH field 0000), push-pull (OT = 0) and speed 11, and    *)
(* the registers equal those MCO_Pins_Config of mco_pins_config.c leaves.  *)
(***************************************************************************)
RECURSIVE RunBody(_, _)
RunBody(body, r) ==
    IF body = << >> THEN r
    ELSE LET ins == Head(body)
         IN  RunBody(Tail(body),
                     [r EXCEPT ![ins.reg] = Written(ins.reg, @, Apply(ins, @))])

PinRegs ==
    {"GPIOA_MODER", "GPIOC_MODER", "GPIOA_AFRH", "GPIOC_AFRH",
     "GPIOA_OTYPER", "GPIOC_OTYPER", "GPIOA_OSPEEDR", "GPIOC_OSPEEDR"}

PinsConfigReturned ==
    \E k \in DOMAIN log : log[k].kind = "ret" /\ log[k].fn = "MCO_Pins_Config"

PinModes ==
    /\ Field(regs["GPIOA_MODER"], 16, 17) = 2
    /\ Field(regs["GPIOC_MODER"], 18, 19) = 2
    /\ Field(regs["GPIOA_OTYPER"], 8, 8) = 0
    /\ Field(regs["GPIOC_OTYPER"], 9, 9) = 0
    /\ Field(regs["GPIOA_OSPEEDR"], 16, 17) = 3
    /\ Field(regs["GPIOC_OSPEEDR"], 18, 19) = 3

PinsAF0 ==
    /\ Field(regs["GPIOA_AFRH"], 0, 3) = 0
    /\ Field(regs["GPIOC_AFRH"], 4, 7) = 0

SameAsPinsFile ==
    \A r \in PinRegs : regs[r] = RunBody(MCO_Pins_Config_m, EntryRegs(boot))[r]

C16_PinsRoutedToAF0 ==
    (variant = "main_c" /\ PinsConfigReturned) =>
        PinModes /\ PinsAF0 /\ SameAsPinsFile

(***************************************************************************)
(* C17.  As claimed: starting from PLL1RGE = 00, the PLL1RGE field of      *)
(* RCC_PLLCFGR (bits 3:2) is 01, the 2 to 4 MHz input range, once PLL1ON   *)
(* has been set.                                                           *)
(***************************************************************************)
PLL1RGE == Field(regs["RCC_PLLCFGR"], 2, 3)

C17_InputRangeTwoToFour ==
    (/\ Field(EntryRegs(boot)["RCC_PLLCFGR"], 2, 3) = 0
     /\ Wrote(log, "RCC_CR", "set", stm32h7xx.RCC_CR_PLL1ON))
        => PLL1RGE = 1

(***************************************************************************)
(* C18.  The fractional divider is latched in the prescribed order:        *)
(* PLL1FRACEN is cleared, then RCC_PLL1FRACR is written with 0, then       *)
(* PLL1FRACEN is set, all before PLL1ON is set; PLL1FRACEN is never set    *)
(* without having been cleared earlier in the call, and RCC_PLL1FRACR is   *)
(* never written while PLL1FRACEN is 1.                                    *)
(***************************************************************************)
FracEnWrite(e, op) ==
    /\ IsWrite(e)
    /\ e.reg = "RCC_PLLCFGR"
    /\ e.op = op
    /\ stm32h7xx.RCC_PLLCFGR_PLL1FRACEN \subseteq e.mask

FracrWrite(e) == IsWrite(e) /\ e.reg = "RCC_PLL1FRACR"

AtFracrWrite == AtIns /\ CurIns.op \in WriteOps /\ CurIns.reg = "RCC_PLL1FRACR"

C18_FractionalLatchOrder ==
    /\ \A k \in DOMAIN log :
           /\ FracrWrite(log[k]) =>
                  /\ \E j \in Before(k) : FracEnWrite(log[j], "clr")
                  /\ \A j \in Before(k) : ~FracEnWrite(log[j], "set")
           /\ FracEnWrite(log[k], "set") =>
                  /\ \E j \in Before(k) :
                         /\ FracrWrite(log[j])
                         /\ \E h \in Before(j) : FracEnWrite(log[h], "clr")
                  /\ ~Pll1OnWritten("set", k)
    /\ Wrote(log, "RCC_CR", "set", stm32h7xx.RCC_CR_PLL1ON) =>
           /\ \E k \in DOMAIN log : FracEnWrite(log[k], "set")
           /\ Has("RCC_PLLCFGR", stm32h7xx.RCC_PLLCFGR_PLL1FRACEN)
    /\ AtFracrWrite =>
           /\ ~Has("RCC_PLLCFGR", stm32h7xx.RCC_PLLCFGR_PLL1FRACEN)
           /\ CurIns.op = "store"
           /\ CurIns.val = {}
    /\ regs["RCC_PLL1FRACR"] = {}

C18_Witness ==
    /\ variant = "main_c"
    /\ \E k \in DOMAIN log : FracEnWrite(log[k], "set")
    /\ \E k \in DOMAIN log : FracrWrite(log[k])
    /\ Wrote(log, "RCC_CR", "set", stm32h7xx.RCC_CR_PLL1ON)

(***************************************************************************)
(* C19.  As claimed: in the multi-file variant, once SystemClock_Config of *)
(* system_clock_config.c has completed and MCO_Select_Set of               *)
(* mco_select_set.c has run, MCO1 and MCO2 both expose a running clock:    *)
(* the oscillator or PLL output chosen by the source field of each is      *)
(* enabled, and the prescaler field of each is not 0000.                   *)
(***************************************************************************)
MCO1 == Field(regs["RCC_CFGR"], 22, 24)
MCO1PRE == Field(regs["RCC_CFGR"], 18, 21)
MCO2 == Field(regs["RCC_CFGR"], 29, 31)
MCO2PRE == Field(regs["RCC_CFGR"], 25, 28)

Pll1Running ==
    Has("RCC_CR", stm32h7xx.RCC_CR_PLL1ON \cup stm32h7xx.RCC_CR_PLL1RDY)

\* the clock selected by MCO1 is enabled (LSE and HSI48 are never started)
Mco1SourceOn ==
    CASE MCO1 = 0 -> Has("RCC_CR", stm32h7xx.RCC_CR_HSION)
      [] MCO1 = 2 -> Has("RCC_CR", stm32h7xx.RCC_CR_HSEON)
      [] MCO1 = 3 -> Pll1Running /\ Has("RCC_PLLCFGR", stm32h7xx.RCC_PLLCFGR_DIVQ1EN)
      [] OTHER -> FALSE

\* the clock selected by MCO2 is enabled (PLL2, CSI and LSI are never started)
Mco2SourceOn ==
    CASE MCO2 = 0 -> TRUE
      [] MCO2 = 2 -> Has("RCC_CR", stm32h7xx.RCC_CR_HSEON)
      [] MCO2 = 3 -> Pll1Running /\ Has("RCC_PLLCFGR", stm32h7xx.RCC_PLLCFGR_DIVP1EN)
      [] OTHER -> FALSE

HasReturned(f) == \E k \in DOMAIN log : log[k].kind = "ret" /\ log[k].fn = f

C19_BothOutputsRunning ==
    (/\ variant = "multi"
     /\ HasReturned("SystemClock_Config")
     /\ HasReturned("MCO_Select_Set"))
        => /\ Mco1SourceOn /\ MCO1PRE # 0
           /\ Mco2SourceOn /\ MCO2PRE # 0

=============================================================================
